---- MODULE Spec2Model ----
(***************************************************************************)
(* Model of crates/assistant_tools/src/web_search_tool.rs:                 *)
(* WebSearchTool::run (one invocation), the shared search future, the      *)
(* background output task, and WebSearchToolCard (completion handler and   *)
(* render).                                                                *)
(***************************************************************************)
EXTENDS Integers, Sequences, FiniteSets, TLC

\* ------------------------------------------------------------------ bounds
\* Longest citation sequence a provider response carries in the model.
MaxCitations == 2

\* ------------------------------------------------------- values and inputs
\* Citation { title, url }; no uniqueness constraint, so sequences repeat them.
CitationPool ==
    { [title |-> "t1", url |-> "u1"], [title |-> "t2", url |-> "u2"] }

RECURSIVE SeqsUpTo(_, _)
SeqsUpTo(S, n) ==
    IF n = 0 THEN { <<>> }
    ELSE LET shorter == SeqsUpTo(S, n - 1)
         IN  shorter \cup { Append(s, x) : s \in { t \in shorter : Len(t) = n - 1 }, x \in S }

\* anyhow::Error as its chain of messages, outermost context first.
ProviderErrors ==
    { << "rate limited" >>, << "search request failed", "rate limited" >> }

\* Option<Result<WebSearchResponse>> and Result<WebSearchResponse, E>,
\* as one record shape: tag None / Ok / Err.
NoResponse == [tag |-> "None", citations |-> <<>>, err |-> <<>>]
OkResponse(cs) == [tag |-> "Ok", citations |-> cs, err |-> <<>>]
ErrResponse(e) == [tag |-> "Err", citations |-> <<>>, err |-> e]

\* What a provider search can resolve to.
SearchOutcomes ==
    { OkResponse(cs) : cs \in SeqsUpTo(CitationPool, MaxCitations) }
        \cup { ErrResponse(e) : e \in ProviderErrors }

\* serde_json::Value handed to run(): objects with or without a query
\* member (string, number or null) and possibly an unknown member, and
\* non-object values.
JsonStrings == { "s:rust", "s:zed" }
JsonScalars == JsonStrings \cup { "n:5", "null" }
RawInputs ==
    { [kind |-> "object", query |-> q, other |-> o] :
          q \in JsonScalars \cup { "absent" }, o \in { "absent", "n:5" } }
        \cup { [kind |-> "scalar", query |-> v, other |-> "absent"] : v \in JsonScalars }

\* serde with a defaulted query: a missing member decodes to the empty query.
FromValueDefaulting(input) ==
    IF input.kind # "object"
    THEN [ok |-> FALSE, query |-> "", err |-> << "invalid type: expected struct WebSearchToolInput" >>]
    ELSE IF input.query = "absent"
    THEN [ok |-> TRUE, query |-> "", err |-> <<>>]
    ELSE IF input.query \notin JsonStrings
    THEN [ok |-> FALSE, query |-> "", err |-> << "invalid type: expected a string" >>]
    ELSE [ok |-> TRUE, query |-> input.query, err |-> <<>>]

\* serde_json::from_value::<WebSearchToolInput>: a struct with one required
\* String field query; unknown members are ignored.
FromValue(input) ==
    IF input.kind # "object"
    THEN [ok |-> FALSE, query |-> "", err |-> << "invalid type: expected struct WebSearchToolInput" >>]
    ELSE IF input.query = "absent"
    THEN [ok |-> FALSE, query |-> "", err |-> << "missing field query" >>]
    ELSE IF input.query \notin JsonStrings
    THEN [ok |-> FALSE, query |-> "", err |-> << "invalid type: expected a string" >>]
    ELSE [ok |-> TRUE, query |-> input.query, err |-> <<>>]

NotAvailable == << "Web search is not available." >>

\* A lookup that falls back to a default provider.
ActiveProviderOrDefault(reg) ==
    [some |-> TRUE, provider |-> IF reg = "none" THEN "provider" ELSE reg]

\* WebSearchRegistry::read_global(cx).active_provider(): Option<provider>.
ActiveProvider(reg) ==
    IF reg = "none"
    THEN [some |-> FALSE, provider |-> "none"]
    ELSE [some |-> TRUE, provider |-> reg]

\* ------------------------------------------------------------ error values
\* Display of an anyhow::Error: the outermost message only.
ErrToString(e) == e[1]

\* A fresh error that does not carry the message of the shared one.
AnyhowGeneric(e) == << "Web search failed" >>

\* anyhow!(err) for err: Arc<anyhow::Error>: a new error built from the
\* Display of the shared one (Arc<anyhow::Error> is not std::error::Error).
AnyhowFromShared(e) == << ErrToString(e) >>

\* --------------------------------------------------------- serialization
\* serde_json::to_string(&response), as a token sequence.
SerializeCitation(c) == << "{", c.title, c.url, "}" >>

RECURSIVE SerializeCitations(_)
SerializeCitations(cs) ==
    IF cs = <<>> THEN <<>>
    ELSE IF Len(cs) = 1 THEN SerializeCitation(cs[1])
    ELSE SerializeCitation(cs[1]) \o << "," >> \o SerializeCitations(Tail(cs))

\* Serializes the first citation only.
ToJsonStringFirstOnly(response) ==
    << "[" >>
        \o SerializeCitations(IF response.citations = <<>> THEN <<>>
                               ELSE << response.citations[1] >>)
        \o << "]" >>

ToJsonString(response) ==
    << "[" >> \o SerializeCitations(response.citations) \o << "]" >>

\* The inverse reading of the textual result (serde_json::from_str).
RECURSIVE ParseCitations(_)
ParseCitations(toks) ==
    IF Len(toks) < 4 THEN <<>>
    ELSE IF toks[1] = "," THEN ParseCitations(Tail(toks))
    ELSE << [title |-> toks[2], url |-> toks[3]] >>
             \o ParseCitations(SubSeq(toks, 5, Len(toks)))

FromJsonString(text) ==
    ParseCitations(SubSeq(text, 2, Len(text) - 1))

\* Result<String> of the output task.
NoOutput == [tag |-> "None", text |-> <<>>, err |-> <<>>]
OkOutput(t) == [tag |-> "Ok", text |-> t, err |-> <<>>]
ErrOutput(e) == [tag |-> "Err", text |-> <<>>, err |-> e]

\* serde_json::to_string returns a Result; fails says whether the
\* serializer of the response type reports an error.
SerializeError == << "serializer error" >>
SerializeResult(response, fails) ==
    IF fails
    THEN [ok |-> FALSE, text |-> <<>>, err |-> SerializeError]
    ELSE [ok |-> TRUE, text |-> ToJsonString(response), err |-> <<>>]

\* .context(msg): msg becomes the outermost message, the error its cause.
WithContext(e, msg) == << msg >> \o e

\* An output task that hands on the serializer's error as it is.
TaskOutputNoContext(outcome, fails) ==
    IF outcome.tag = "Err"
    THEN ErrOutput(AnyhowFromShared(outcome.err))
    ELSE LET r == SerializeResult(outcome, fails)
         IN  IF r.ok THEN OkOutput(r.text) ELSE ErrOutput(r.err)

\* Body of the background task once the shared future has resolved:
\*   let response = search_task.await.map_err(|err| anyhow!(err))?;
\*   serde_json::to_string(&response).context("Failed to serialize ...")
TaskOutput(outcome, fails) ==
    IF outcome.tag = "Err"
    THEN ErrOutput(AnyhowFromShared(outcome.err))
    ELSE LET r == SerializeResult(outcome, fails)
         IN  IF r.ok THEN OkOutput(r.text)
             ELSE ErrOutput(WithContext(r.err, "Failed to serialize search results"))

\* The same with a serializer that reports no error.
OutputOf(outcome) == TaskOutput(outcome, FALSE)

\* ------------------------------------------------------------ shared future
\* provider.search(input.query, cx): one more search started.
ProviderSearch(calls) == calls + 1

\* Without sharing, every await runs the search again.
AwaitUnshared(calls) == calls + 1

\* Awaiting a clone of the Shared future observes the one search; it
\* starts nothing.
AwaitShared(calls) == calls

\* Dropping any one handle drops the search.
ReleaseOnly(st, otherAwaits) ==
    IF st.state = "pending"
    THEN [st EXCEPT !.state = "cancelled"]
    ELSE st

\* A consumer's clone of the Shared future is dropped.  The inner search is
\* dropped with the last clone only.
ReleaseClone(st, otherAwaits) ==
    IF st.state = "pending" /\ ~otherAwaits
    THEN [st EXCEPT !.state = "cancelled"]
    ELSE st

\* --------------------------------------------------------------- the card
\* A card task that replaces a failure by an empty response.
CardResponseOfDefaulting(outcome) ==
    IF outcome.tag = "Err" THEN OkResponse(<<>>) ELSE outcome

\* search_task.await.map_err(|err| anyhow!(err)) in the card's task.
CardResponseOf(outcome) ==
    IF outcome.tag = "Err"
    THEN ErrResponse(AnyhowFromShared(outcome.err))
    ELSE outcome

\* A handler that adds the citations it is given to those it holds.
StoreAccumulating(c, response) ==
    IF c.response.tag = "Ok" /\ response.tag = "Ok"
    THEN [c EXCEPT !.response = OkResponse(c.response.citations \o response.citations)]
    ELSE [c EXCEPT !.response = response]

\* The closure given to this.update: this.response = Some(response).
StoreResponse(c, response) == [c EXCEPT !.response = response]

\* An update through a handle that ignores the release of the entity.
StrongUpdate(c, released, response) ==
    [ok |-> TRUE, card |-> StoreResponse(c, response), notified |-> 1]

\* this.update(cx, |this, cx| { ...; cx.notify() }) through the weak handle:
\* Err and no effect once the entity is released.
WeakUpdate(c, released, response) ==
    IF released
    THEN [ok |-> FALSE, card |-> c, notified |-> 0]
    ELSE [ok |-> TRUE, card |-> StoreResponse(c, response), notified |-> 1]

\* ----------------------------------------------------------------- render
Digits == << "0", "1", "2", "3", "4", "5", "6", "7", "8", "9" >>

RECURSIVE FormatNat(_)
FormatNat(n) ==
    IF n < 10 THEN << Digits[n + 1] >>
    ELSE FormatNat(n \div 10) \o << Digits[(n % 10) + 1] >>

\* Singular wording for every count up to one.
CountTextUpToOne(n) ==
    IF n <= 1 THEN << "1", " result" >>
    ELSE FormatNat(n) \o << " results" >>

\* if response.citations.len() == 1 { "1 result" } else { "{} results" }
CountText(n) ==
    IF n = 1 THEN << "1", " result" >>
    ELSE FormatNat(n) \o << " results" >>

Header(response) ==
    CASE response.tag = "Ok" ->
            [label |-> "Searched the Web",
             text |-> CountText(Len(response.citations)), tooltip |-> ""]
      [] response.tag = "Err" ->
            [label |-> "Web Search failed",
             text |-> <<>>, tooltip |-> ErrToString(response.err)]
      [] OTHER ->
            [label |-> "Searching the Web", text |-> <<>>, tooltip |-> ""]

\* A body that is built in every state.
ContentAlwaysPresent(response) ==
    [present |-> TRUE,
     rows |-> [i \in 1..Len(response.citations) |->
                  [index |-> i - 1,
                   title |-> response.citations[i].title,
                   tooltip |-> response.citations[i].url,
                   opens |-> response.citations[i].url]]]

Content(response) ==
    IF response.tag = "Ok"
    THEN [present |-> TRUE,
          rows |-> [i \in 1..Len(response.citations) |->
                       [index |-> i - 1,
                        title |-> response.citations[i].title,
                        tooltip |-> response.citations[i].url,
                        opens |-> response.citations[i].url]]]
    ELSE [present |-> FALSE, rows |-> <<>>]

\* A render that takes the response out of the card.
CardAfterRenderTaking(c) == [c EXCEPT !.response = NoResponse]

\* render reads self.response through as_ref(); the card is left as it is.
CardAfterRender(c) == c

\* ------------------------------------------------------------------ state
VARIABLES
    pc,           \* "start" before run(), "returned" after
    registry,     \* WebSearchRegistry: "none" or the active provider
    rawInput,     \* the input run() was called with
    searchCalls,  \* number of provider.search calls
    search_task,  \* the shared future: [state, query, outcome]
    output,       \* ToolResult.output: [status, result]
    card,         \* ToolResult.card: [present, response, task]
    disposed,     \* the entity of the card has been released
    notifies,     \* number of cx.notify() calls of the card
    view,         \* what the last render produced
    opened,       \* the urls handed to cx.open_url
    completed,    \* the consumers that took the resolution, in that order
    serializeFails \* the serializer of the response type reports an error

vars == << pc, registry, rawInput, searchCalls, search_task, output, card,
           disposed, notifies, view, opened, completed, serializeFails >>

NoInput == [kind |-> "unset", query |-> "absent", other |-> "absent"]
NoCard == [present |-> FALSE, response |-> NoResponse, task |-> "none"]
NoView == [rendered |-> FALSE, header |-> Header(NoResponse),
           content |-> Content(NoResponse)]

InitState ==
    /\ pc = "start"
    /\ registry \in { "none", "provider" }
    /\ rawInput = NoInput
    /\ searchCalls = 0
    /\ search_task = [state |-> "idle", query |-> "", outcome |-> NoResponse]
    /\ output = [status |-> "none", result |-> NoOutput]
    /\ card = NoCard
    /\ disposed = FALSE
    /\ notifies = 0
    /\ view = NoView
    /\ opened = {}
    /\ completed = <<>>

\* The serializer of WebSearchResponse reports no error.
Init ==
    /\ InitState
    /\ serializeFails = FALSE

\* The serializer may report an error.
InitSerializeFault ==
    /\ InitState
    /\ serializeFails \in BOOLEAN

\* WebSearchToolCard::new: the task is spawned, response is None.
CardNew == [present |-> TRUE, response |-> NoResponse, task |-> "awaiting"]

\* A run() that looks the provider up before it decodes the input.
RunLookupFirst ==
    /\ pc = "start"
    /\ pc' = "returned"
    /\ \E input \in RawInputs :
         LET parsed == FromValue(input) IN
         /\ rawInput' = input
         /\ IF ~ActiveProvider(registry).some
            THEN /\ output' = [status |-> "done", result |-> ErrOutput(NotAvailable)]
                 /\ UNCHANGED << searchCalls, search_task, card >>
            ELSE IF ~parsed.ok
            THEN /\ output' = [status |-> "done", result |-> ErrOutput(parsed.err)]
                 /\ UNCHANGED << searchCalls, search_task, card >>
            ELSE /\ searchCalls' = ProviderSearch(searchCalls)
                 /\ search_task' = [state |-> "pending", query |-> parsed.query,
                                    outcome |-> NoResponse]
                 /\ output' = [status |-> "running", result |-> NoOutput]
                 /\ card' = CardNew
    /\ UNCHANGED << registry, disposed, notifies, view, opened, completed,
                    serializeFails >>

\* WebSearchTool::run, whole.
Run ==
    /\ pc = "start"
    /\ pc' = "returned"
    /\ \E input \in RawInputs :
         LET parsed == FromValue(input) IN
         /\ rawInput' = input
         /\ IF ~parsed.ok
            THEN /\ output' = [status |-> "done", result |-> ErrOutput(parsed.err)]
                 /\ UNCHANGED << searchCalls, search_task, card >>
            ELSE IF ~ActiveProvider(registry).some
            THEN /\ output' = [status |-> "done", result |-> ErrOutput(NotAvailable)]
                 /\ UNCHANGED << searchCalls, search_task, card >>
            ELSE /\ searchCalls' = ProviderSearch(searchCalls)
                 /\ search_task' = [state |-> "pending", query |-> parsed.query,
                                    outcome |-> NoResponse]
                 /\ output' = [status |-> "running", result |-> NoOutput]
                 /\ card' = CardNew
    /\ UNCHANGED << registry, disposed, notifies, view, opened, completed,
                    serializeFails >>

\* The provider's search finishes with a response or an error.
ProviderResolve ==
    /\ search_task.state = "pending"
    /\ \E outcome \in SearchOutcomes :
         search_task' = [search_task EXCEPT !.state = "resolved", !.outcome = outcome]
    /\ UNCHANGED << pc, registry, rawInput, searchCalls, output, card,
                    disposed, notifies, view, opened, completed, serializeFails >>

\* An output task that takes the resolution out of the future, leaving
\* nothing for a later consumer.
OutputTaskCompleteTaking ==
    /\ output.status = "running"
    /\ search_task.state = "resolved"
    /\ output' = [status |-> "done",
                  result |-> TaskOutput(search_task.outcome, serializeFails)]
    /\ search_task' = [search_task EXCEPT !.outcome = NoResponse]
    /\ searchCalls' = AwaitShared(searchCalls)
    /\ completed' = Append(completed, "output")
    /\ UNCHANGED << pc, registry, rawInput, card, disposed,
                    notifies, view, opened, serializeFails >>

\* An output task that gives up with an error while the search is pending.
OutputTaskCompleteOrTimeout ==
    /\ output.status = "running"
    /\ search_task.state \in { "pending", "resolved" }
    /\ output' = [status |-> "done",
                  result |-> IF search_task.state = "resolved"
                             THEN TaskOutput(search_task.outcome, serializeFails)
                             ELSE ErrOutput(<< "Web search timed out" >>)]
    /\ searchCalls' = AwaitShared(searchCalls)
    /\ completed' = Append(completed, "output")
    /\ UNCHANGED << pc, registry, rawInput, search_task, card, disposed,
                    notifies, view, opened, serializeFails >>

\* The background task spawned by run() gets the resolution and finishes.
OutputTaskComplete ==
    /\ output.status = "running"
    /\ search_task.state = "resolved"
    /\ output' = [status |-> "done",
                  result |-> TaskOutput(search_task.outcome, serializeFails)]
    /\ searchCalls' = AwaitShared(searchCalls)
    /\ completed' = Append(completed, "output")
    /\ UNCHANGED << pc, registry, rawInput, search_task, card, disposed,
                    notifies, view, opened, serializeFails >>

\* A card task that is woken only while the output task is still waiting:
\* the future keeps one waker.
CardTaskCompleteSingleWaker ==
    /\ card.present
    /\ card.task = "awaiting"
    /\ search_task.state = "resolved"
    /\ output.status = "running"
    /\ LET upd == WeakUpdate(card, disposed, CardResponseOf(search_task.outcome))
       IN  /\ card' = [upd.card EXCEPT !.task = "done"]
           /\ notifies' = notifies + upd.notified
    /\ searchCalls' = AwaitShared(searchCalls)
    /\ completed' = Append(completed, "card")
    /\ UNCHANGED << pc, registry, rawInput, search_task, output, disposed, view,
                    opened, serializeFails >>

\* The card's task gets the resolution and updates the card through the
\* weak handle; .ok() discards the Err of a released entity.
CardTaskComplete ==
    /\ card.present
    /\ card.task = "awaiting"
    /\ search_task.state = "resolved"
    /\ LET upd == WeakUpdate(card, disposed, CardResponseOf(search_task.outcome))
       IN  /\ card' = [upd.card EXCEPT !.task = "done"]
           /\ notifies' = notifies + upd.notified
    /\ searchCalls' = AwaitShared(searchCalls)
    /\ completed' = Append(completed, "card")
    /\ UNCHANGED << pc, registry, rawInput, search_task, output, disposed, view,
                    opened, serializeFails >>

\* The caller drops ToolResult.output before it finished: the background
\* task is cancelled and its clone of the shared future dropped.
DropOutput ==
    /\ output.status = "running"
    /\ output' = [output EXCEPT !.status = "dropped"]
    /\ search_task' = ReleaseClone(search_task, card.task = "awaiting")
    /\ UNCHANGED << pc, registry, rawInput, searchCalls, card, disposed,
                    notifies, view, opened, completed, serializeFails >>

\* The last strong handle of the card goes away.  The entity is released;
\* its _task is dropped with it (cancelled), unless the task runs before the
\* state is dropped, in which case it meets the released weak handle.
DisposeCard ==
    /\ card.present
    /\ ~disposed
    /\ disposed' = TRUE
    /\ \E cancel \in BOOLEAN :
         IF cancel /\ card.task = "awaiting"
         THEN /\ card' = [card EXCEPT !.task = "cancelled"]
              /\ search_task' = ReleaseClone(search_task, output.status = "running")
         ELSE UNCHANGED << card, search_task >>
    /\ UNCHANGED << pc, registry, rawInput, searchCalls, output, notifies, view,
                    opened, completed, serializeFails >>

\* ToolCard::render of a live card.
Render ==
    /\ card.present
    /\ ~disposed
    /\ view' = [rendered |-> TRUE, header |-> Header(card.response),
                content |-> Content(card.response)]
    /\ card' = CardAfterRender(card)
    /\ UNCHANGED << pc, registry, rawInput, searchCalls, search_task, output,
                    disposed, notifies, opened, completed, serializeFails >>

\* A click removes the clicked citation from the card.
CardAfterClickRemoving(c, i) ==
    [c EXCEPT !.response.citations =
        SubSeq(c.response.citations, 1, i - 1)
            \o SubSeq(c.response.citations, i + 1, Len(c.response.citations))]

\* The on_click closure holds a clone of the url only; the card is left
\* as it is.
CardAfterClick(c, i) == c

\* The user clicks the i-th citation button of the last render:
\* cx.open_url(&url).
ClickCitation ==
    /\ card.present
    /\ ~disposed
    /\ view.rendered
    /\ view.content.present
    /\ \E i \in 1..Len(view.content.rows) :
         /\ opened' = opened \cup { view.content.rows[i].opens }
         /\ card' = CardAfterClick(card, i)
    /\ UNCHANGED << pc, registry, rawInput, searchCalls, search_task, output,
                    disposed, notifies, view, completed, serializeFails >>

Next ==
    \/ Run
    \/ ProviderResolve
    \/ OutputTaskComplete
    \/ CardTaskComplete
    \/ DropOutput
    \/ DisposeCard
    \/ Render
    \/ ClickCitation

Spec == Init /\ [][Next]_vars

\* The same program with a serializer that may report an error.
SpecSerializeFault == InitSerializeFault /\ [][Next]_vars

\* The executors run a task that can take the resolution.
FairSpec ==
    /\ Spec
    /\ WF_vars(OutputTaskComplete)
    /\ WF_vars(CardTaskComplete)

\* ================================================================ claims
\* The raw input has the shape of WebSearchToolInput: an object whose
\* query member is a string.
WellFormed(input) == input.kind = "object" /\ input.query \in JsonStrings

DeserializeErrors ==
    { << "invalid type: expected struct WebSearchToolInput" >>,
      << "missing field query" >>,
      << "invalid type: expected a string" >> }

Resolved == search_task.state = "resolved"

\* C1: in one run() invocation provider.search is started at most once,
\* whoever awaits the shared future and also after it resolved to a failure.
C1_AtMostOneSearch == searchCalls <= 1

C1_Witness ==
    /\ searchCalls = 1
    /\ Resolved
    /\ search_task.outcome.tag = "Err"
    /\ output.status = "done"
    /\ card.task = "done"

\* C2: an input that does not decode makes run() return an already failed
\* result with the deserialization error, without any provider search,
\* without a background task and without a card.
C2_MalformedInputFailsEarly ==
    (pc = "returned" /\ ~WellFormed(rawInput)) =>
        /\ output.status = "done"
        /\ output.result.tag = "Err"
        /\ output.result.err \in DeserializeErrors
        /\ searchCalls = 0
        /\ search_task.state = "idle"
        /\ card = NoCard

C2_Witness ==
    /\ pc = "returned"
    /\ rawInput.kind = "object"
    /\ rawInput.query = "absent"
    /\ registry = "provider"
    /\ output.result.err = << "missing field query" >>

\* C3: a decodable input with no active provider makes run() return an
\* already failed result with "Web search is not available.", without a
\* provider search, background work or a card.
C3_NoProviderFailsEarly ==
    (pc = "returned" /\ WellFormed(rawInput) /\ registry = "none") =>
        /\ output.status = "done"
        /\ output.result = ErrOutput(<< "Web search is not available." >>)
        /\ searchCalls = 0
        /\ search_task.state = "idle"
        /\ card = NoCard

C3_Witness ==
    /\ pc = "returned"
    /\ WellFormed(rawInput)
    /\ registry = "none"
    /\ output.result.tag = "Err"

\* C4: for a response of N citations, once both consumers completed, the
\* text of the output task decodes to exactly that sequence and the card is
\* Succeeded with the same sequence, in the same order.
C4_CitationsPreserved ==
    (/\ Resolved
     /\ search_task.outcome.tag = "Ok"
     /\ output.status = "done"
     /\ card.task = "done"
     /\ ~disposed) =>
        /\ output.result.tag = "Ok"
        /\ FromJsonString(output.result.text) = search_task.outcome.citations
        /\ card.response.tag = "Ok"
        /\ card.response.citations = search_task.outcome.citations
        /\ card.response.citations = FromJsonString(output.result.text)

C4_Witness ==
    /\ Resolved
    /\ output.status = "done"
    /\ card.task = "done"
    /\ ~disposed
    /\ Len(search_task.outcome.citations) = 2
    /\ search_task.outcome.citations[1] # search_task.outcome.citations[2]
    /\ card.response.citations = search_task.outcome.citations

\* C5: when the search fails with message M, the output task resolves to an
\* error with message M and a card that was updated is Failed with error
\* text M; the two texts never differ.
C5_SameFailureText ==
    (Resolved /\ search_task.outcome.tag = "Err") =>
        LET M == ErrToString(search_task.outcome.err) IN
        /\ output.status = "done" =>
              /\ output.result.tag = "Err"
              /\ ErrToString(output.result.err) = M
        /\ (card.task = "done" /\ ~disposed) => card.response.tag = "Err"
        /\ card.response.tag # "None" =>
              /\ card.response.tag = "Err"
              /\ ErrToString(card.response.err) = M
        /\ (output.status = "done" /\ card.response.tag # "None") =>
              ErrToString(output.result.err) = ErrToString(card.response.err)
        /\ view.header.label = "Web Search failed" => view.header.tooltip = M

C5_Witness ==
    /\ Resolved
    /\ search_task.outcome.err = << "search request failed", "rate limited" >>
    /\ output.status = "done"
    /\ card.response.tag = "Err"
    /\ view.header.tooltip = "search request failed"

\* C6: once the entity of a Pending card is released, a later completion
\* changes nothing: the card stays Pending and no notify is issued.
C6_DisposedPendingStays ==
    [][ (disposed /\ card.response.tag = "None") =>
            /\ card'.response.tag = "None"
            /\ notifies' = notifies
            /\ card'.task \in { card.task, "done" } ]_vars

C6_Witness ==
    /\ disposed
    /\ Resolved
    /\ card.task = "done"
    /\ card.response.tag = "None"
    /\ notifies = 0

\* C7: the card starts Pending and changes at most once, from Pending to
\* Succeeded or Failed when the shared future has resolved; a Succeeded or
\* Failed card never changes again.
C7_SingleTransition ==
    [][ /\ (~card.present /\ card'.present) => card'.response.tag = "None"
        /\ card.response.tag # "None" => card'.response = card.response
        /\ card'.response # card.response =>
              /\ card.response.tag = "None"
              /\ card'.response.tag \in { "Ok", "Err" }
              /\ Resolved ]_vars

C7_Witness ==
    /\ card.response.tag = "Ok"
    /\ view.rendered
    /\ view.header.label = "Searched the Web"
    /\ notifies = 1

\* C8: for a card that is Succeeded or Failed, running the completion
\* handler once more with the resolution of the shared future leaves the
\* stored response as it is.
C8_HandlerIdempotent ==
    (card.response.tag # "None") =>
        /\ StoreResponse(card, CardResponseOf(search_task.outcome)).response
              = card.response
        /\ WeakUpdate(card, FALSE, CardResponseOf(search_task.outcome)).card
              = card

C8_Witness ==
    /\ card.response.tag = "Ok"
    /\ Len(card.response.citations) = 2
    /\ card.task = "done"

\* C9: neither consumer cancels the search for the other.  While one of
\* them still awaits, the search is not cancelled; with the output task
\* dropped the card still takes the resolution, and with the card's task
\* dropped the output task still resolves with the outcome.
C9_NoUnilateralCancel ==
    /\ card.task = "awaiting" => search_task.state \in { "pending", "resolved" }
    /\ output.status = "running" => search_task.state \in { "pending", "resolved" }
    /\ search_task.state = "cancelled" =>
          (output.status = "dropped" /\ card.task = "cancelled")
    /\ (output.status = "dropped" /\ card.task = "awaiting" /\ Resolved) =>
          ENABLED CardTaskComplete
    /\ (card.task = "cancelled" /\ output.status = "running" /\ Resolved) =>
          ENABLED OutputTaskComplete
    /\ (output.status = "dropped" /\ card.task = "done" /\ ~disposed) =>
          card.response = CardResponseOf(search_task.outcome)
    /\ (card.task = "cancelled" /\ output.status = "done") =>
          output.result = OutputOf(search_task.outcome)

C9_Witness ==
    /\ output.status = "dropped"
    /\ card.task = "done"
    /\ ~disposed
    /\ card.response.tag = "Ok"
    /\ Len(card.response.citations) = 1

C9_WitnessCardDropped ==
    /\ card.task = "cancelled"
    /\ output.status = "done"
    /\ output.result.tag = "Ok"

\* C10: the Succeeded header reads "1 result" exactly when there is one
\* citation, and "<count> results" for zero and for two or more.
C10_CountWording ==
    (view.rendered /\ view.header.label = "Searched the Web") =>
        LET n == Len(card.response.citations) IN
        /\ card.response.tag = "Ok"
        /\ n = Len(view.content.rows)
        /\ (view.header.text = << "1", " result" >>) <=> (n = 1)
        /\ n # 1 => view.header.text = FormatNat(n) \o << " results" >>

C10_Witness ==
    /\ view.rendered
    /\ view.header.text = << "0", " results" >>
    /\ Len(card.response.citations) = 0
    /\ card.response.tag = "Ok"

C10_WitnessSingular ==
    /\ view.rendered
    /\ view.header.text = << "1", " result" >>

C10_WitnessPlural ==
    /\ view.rendered
    /\ view.header.text = << "2", " results" >>

\* C11: once the future has resolved the two consumers complete in either
\* order, and the pair (output result, card response) they end with is the
\* same in both orders.
C11_OrderIndependentResult ==
    /\ (Resolved /\ output.status = "running" /\ card.task = "awaiting") =>
          (ENABLED OutputTaskComplete /\ ENABLED CardTaskComplete)
    /\ (Resolved /\ output.status = "done" /\ card.task = "awaiting") =>
          ENABLED CardTaskComplete
    /\ (Resolved /\ card.task = "done" /\ output.status = "running") =>
          ENABLED OutputTaskComplete
    /\ (Len(completed) = 2 /\ notifies = 1) =>
          /\ completed \in { << "output", "card" >>, << "card", "output" >> }
          /\ output.result.tag = card.response.tag
          /\ output.result.tag = "Ok" =>
                FromJsonString(output.result.text) = card.response.citations
          /\ output.result.tag = "Err" => output.result.err = card.response.err
          /\ output.result = OutputOf(search_task.outcome)
          /\ card.response = CardResponseOf(search_task.outcome)

C11_Witness ==
    /\ completed = << "card", "output" >>
    /\ notifies = 1
    /\ output.result.tag = "Ok"
    /\ Len(card.response.citations) = 2

C11_WitnessOutputFirst ==
    /\ completed = << "output", "card" >>
    /\ notifies = 1
    /\ output.result.tag = "Ok"
    /\ Len(card.response.citations) = 2

\* C12: once the future has resolved, with both tasks scheduled fairly, an
\* output task that is not dropped resolves and a card that is not disposed
\* leaves Pending; what they hold comes from the one resolution.
C12_EventuallyObserved ==
    /\ (Resolved /\ output.status = "running")
          ~> (output.status \in { "done", "dropped" })
    /\ (Resolved /\ card.task = "awaiting" /\ ~disposed)
          ~> (card.response.tag # "None" \/ disposed)
    /\ [](output.status = "done" /\ Resolved =>
              output.result = OutputOf(search_task.outcome))
    /\ [](card.response.tag # "None" =>
              Resolved /\ card.response = CardResponseOf(search_task.outcome))

C12_Witness ==
    /\ Resolved
    /\ output.status = "done"
    /\ output.result.tag = "Err"
    /\ card.response.tag = "Err"
    /\ ~disposed

\* C13: nothing completes by itself: while the search is started and not
\* resolved, the output task has no result and the card is Pending, with
\* no notify issued.
C13_NoSpontaneousCompletion ==
    (search_task.state \in { "pending", "cancelled" }) =>
        /\ output.status \in { "running", "dropped" }
        /\ output.result = NoOutput
        /\ card.present
        /\ card.response.tag = "None"
        /\ card.task # "done"
        /\ notifies = 0
        /\ completed = <<>>

C13_Witness ==
    /\ search_task.state = "pending"
    /\ searchCalls = 1
    /\ output.status = "running"
    /\ card.task = "awaiting"
    /\ view.rendered
    /\ view.header.label = "Searching the Web"

\* C14: when the provider succeeds and serializing the response fails, the
\* output task resolves to the error "Failed to serialize search results"
\* and the card still becomes Succeeded with the response and its citations.
C14_SerializeFailureLeavesCard ==
    (serializeFails /\ Resolved /\ search_task.outcome.tag = "Ok") =>
        /\ output.status = "done" =>
              /\ output.result.tag = "Err"
              /\ ErrToString(output.result.err) = "Failed to serialize search results"
              /\ output.result.text = <<>>
        /\ (card.task = "done" /\ notifies = 1) =>
              /\ card.response.tag = "Ok"
              /\ card.response.citations = search_task.outcome.citations
        /\ card.response.tag \in { "None", "Ok" }

C14_Witness ==
    /\ serializeFails
    /\ output.status = "done"
    /\ output.result.tag = "Err"
    /\ card.response.tag = "Ok"
    /\ Len(card.response.citations) = 2
    /\ view.header.label = "Searched the Web"
    /\ Len(view.content.rows) = 2

\* C15: what a render shows is determined by the card's response: a header
\* in every state (Pending, Succeeded with the count, Failed), and a body
\* exactly when Succeeded, one row per citation in the provider's order.
C15_RenderByState ==
    [][ view' # view =>
          LET r == card.response IN
          /\ view'.rendered
          /\ r.tag = "None" => view'.header.label = "Searching the Web"
          /\ r.tag = "Err" => view'.header.label = "Web Search failed"
          /\ r.tag = "Ok" =>
                /\ view'.header.label = "Searched the Web"
                /\ view'.header.text # <<>>
          /\ view'.content.present <=> (r.tag = "Ok")
          /\ Len(view'.content.rows) = Len(r.citations)
          /\ \A i \in 1..Len(r.citations) :
                /\ view'.content.rows[i].index = i - 1
                /\ view'.content.rows[i].title = r.citations[i].title
                /\ view'.content.rows[i].tooltip = r.citations[i].url
                /\ view'.content.rows[i].opens = r.citations[i].url ]_vars

C15_Witness ==
    /\ view.rendered
    /\ view.header.label = "Searched the Web"
    /\ view.content.present
    /\ Len(view.content.rows) = 2
    /\ view.content.rows[1].title # view.content.rows[2].title

C15_WitnessFailed ==
    /\ view.rendered
    /\ view.header.label = "Web Search failed"
    /\ ~view.content.present

\* C16: the card's response is written by the card's completion handler
\* only: a render, a click on a citation, and the completion or the drop of
\* the output task leave the card as it is, and the card's update leaves
\* the output task's result as it is.
C16_CardWrittenOnlyByHandler ==
    [][ /\ card'.response # card.response =>
              /\ card.task = "awaiting"
              /\ card'.task = "done"
              /\ Resolved
              /\ ~disposed
              /\ notifies' = notifies + 1
        /\ Render => card' = card
        /\ ClickCitation => card' = card
        /\ (OutputTaskComplete \/ DropOutput) => card' = card
        /\ CardTaskComplete => output' = output ]_vars

C16_Witness ==
    /\ opened # {}
    /\ view.rendered
    /\ card.response.tag = "Ok"
    /\ output.status = "done"
    /\ completed = << "card", "output" >>

\* C17: the two consumers agree: a Succeeded card means the search resolved
\* to a response and a Failed card that it resolved to an error, so a
\* success payload never meets a Failed card and a provider failure never
\* meets a Succeeded card.
C17_ConsumersAgree ==
    /\ card.response.tag = "Ok" =>
          (Resolved /\ search_task.outcome.tag = "Ok")
    /\ card.response.tag = "Err" =>
          (Resolved /\ search_task.outcome.tag = "Err")
    /\ ~(output.result.tag = "Ok" /\ card.response.tag = "Err")
    /\ ~(card.present /\ output.result.tag = "Err" /\ card.response.tag = "Ok")

C17_Witness ==
    /\ card.present
    /\ output.result.tag = "Err"
    /\ card.response.tag = "Err"

\* C18: run() decodes before it looks the provider up: a malformed input
\* with no active provider gives the deserialization error; and a card is
\* returned, Pending, exactly when both checks pass, whatever the search
\* resolves to later.
C18_CheckOrder ==
    pc = "returned" =>
        /\ (~WellFormed(rawInput) /\ registry = "none") =>
              /\ output.result.tag = "Err"
              /\ output.result.err \in DeserializeErrors
              /\ output.result.err # << "Web search is not available." >>
        /\ card.present <=> (WellFormed(rawInput) /\ registry # "none")
        /\ card.present => searchCalls = 1
        /\ ~card.present => (searchCalls = 0 /\ search_task.state = "idle")
        /\ (card.present /\ search_task.state = "pending") =>
              card.response.tag = "None"

C18_Witness ==
    /\ pc = "returned"
    /\ rawInput.kind = "object"
    /\ rawInput.query = "n:5"
    /\ registry = "none"
    /\ output.result.err = << "invalid type: expected a string" >>

C18_WitnessCard ==
    /\ pc = "returned"
    /\ card.present
    /\ Resolved
    /\ search_task.outcome.tag = "Err"

====
